---- MODULE Spec2Model ----
(***************************************************************************)
(* Model of the /api/emails route (POST, resolveName and the GitHub        *)
(* request helpers) of github-email-scraper, and of the form of the page   *)
(* that calls it (handleRun).                                              *)
(*                                                                         *)
(* Strings that the code inspects character by character (the raw input    *)
(* names, logins) are sequences of one-character strings; e-mail addresses *)
(* and display names are only compared and are plain strings.  null and    *)
(* undefined are the single value NULL (the code only tests them with ??,  *)
(* ?. and truthiness, which do not tell them apart).                       *)
(***************************************************************************)
EXTENDS Integers, Sequences, FiniteSets, TLC

VARIABLES
    body,       \* the JSON body of the request (fixed for the run)
    pc,         \* the await the request is suspended at
    raw,        \* POST: raw, the trimmed non-blank names
    cur,        \* POST: index in raw of the name being resolved
    results,    \* POST: results
    response,   \* the NextResponse returned ([status |-> 0] while pending)
    inflight,   \* fetches issued and not yet answered
    page,       \* getOrgMembers: page
    members,    \* getOrgMembers: members; then resolveName: members
    users,      \* resolveName: users (org branch)
    chunkAt,    \* resolveName: i, the start of the current chunk (0-based)
    mstate,     \* member index -> progress of its async enrichment callback
    obs,        \* history: the answers received for the current name
    fetched,    \* history: the member pages answered for the current name
    enumOutcome,\* history: how getOrgMembers ended for the current name
    mobs,       \* history: per enumerated member, what its two calls yielded
    first403,   \* history: the first fetch of the request was answered 403
    saw403,     \* history: first name index that saw a 403 on a top-level call
    issuedFor,  \* history: name indices for which a fetch has been issued
    input,      \* page: input, the text of the textarea
    loading,    \* page: loading
    data,       \* page: data (None for null)
    error,      \* page: error (NULL for null)
    cpc,        \* page: where handleRun is: idle, fetch, json or returned
    sent,       \* page: inputs, the names posted by the running handleRun
    answer,     \* history: what the route answered to the last handleRun
    shown       \* history: whether data and error were set when it was invoked

serverVars == <<body, pc, raw, cur, results, response, inflight, page,
                members, users, chunkAt, mstate, obs, fetched, enumOutcome,
                mobs, first403, saw403, issuedFor>>

clientVars == <<input, loading, data, error, cpc, sent, answer, shown>>

vars == <<serverVars, clientVars>>

(***************************************************************************)
(* Values                                                                  *)
(***************************************************************************)
NULL == "<null>"

\* JavaScript truthiness of a string-or-null value.
Truthy(x) == x # NULL /\ x # ""

\* x ?? null
OrNull(x) == x

Whitespace == {" "}

RECURSIVE TrimStart(_)
TrimStart(s) ==
    IF s # <<>> /\ Head(s) \in Whitespace THEN TrimStart(Tail(s)) ELSE s

RECURSIVE TrimEnd(_)
TrimEnd(s) ==
    IF s # <<>> /\ s[Len(s)] \in Whitespace
    THEN TrimEnd(SubSeq(s, 1, Len(s) - 1))
    ELSE s

\* String.prototype.trim
Trim(s) == TrimEnd(TrimStart(s))

\* String(s) instead: null becomes the name "null"
OrEmptyStringified(e) ==
    IF e.kind = "str" THEN e.chars ELSE <<"n", "u", "l", "l">>

\* (s || "") for one element of body.inputs
OrEmpty(e) == IF e.kind = "str" THEN e.chars ELSE <<>>

\* the same without .filter(Boolean)
MapTrimFilterKeepBlank(inputs) ==
    [i \in 1..Len(inputs) |-> Trim(OrEmpty(inputs[i]))]

RECURSIVE MapTrimFilter(_)
\* (body.inputs || []).map(s => (s || "").trim()).filter(Boolean)
MapTrimFilter(inputs) ==
    IF inputs = <<>> THEN <<>>
    ELSE LET t == Trim(OrEmpty(Head(inputs)))
         IN  IF t # <<>> THEN <<t>> \o MapTrimFilter(Tail(inputs))
             ELSE MapTrimFilter(Tail(inputs))

\* the same without the seen-set test
DedupeIdentity(arr) == arr

RECURSIVE DedupeFrom(_, _, _)
DedupeFrom(arr, seen, out) ==
    IF arr = <<>> THEN out
    ELSE IF Head(arr) \in seen THEN DedupeFrom(Tail(arr), seen, out)
    ELSE DedupeFrom(Tail(arr), seen \cup {Head(arr)}, Append(out, Head(arr)))

\* dedupe: keeps the first occurrence of every value, in order
dedupe(arr) == DedupeFrom(arr, {}, <<>>)

\* `https://github.com/${login}`
ProfileUrl(login) == <<"https://github.com/">> \o login

(***************************************************************************)
(* Results of the async helpers: a value, null, or a rejection.            *)
(***************************************************************************)
Val(v) == [t |-> "val", v |-> v]
NullRes == [t |-> "null"]
Thrown(msg) == [t |-> "throw", msg |-> msg]

\* promise.catch(() => null)
CatchNull(o) == IF o.t = "throw" THEN NullRes ELSE o

\* Response.ok
IsOk(status) == status >= 200 /\ status <= 299

(***************************************************************************)
(* Answers of the GitHub REST endpoints.  A fetch either rejects (NetErr)  *)
(* or resolves to a response with a status and a JSON body.                *)
(***************************************************************************)
NetErr == [kind |-> "neterr"]

\* GET /search/commits: items is data.items when isArray, anything else otherwise
CommitResp(status, isArray, items) ==
    [kind |-> "http", status |-> status, isArray |-> isArray, items |-> items]

\* one element of data.items: it.commit.author.{email, name}
Item(email, name) == [email |-> email, name |-> name]

\* GET /users/{login}: data.type, data.name, data.email
UserResp(status, type, name, email) ==
    [kind |-> "http", status |-> status, type |-> type, name |-> name,
     email |-> email]

\* GET /orgs/{org}/members: an array of len entries of which the first
\* nlogins carry a login (isArray = FALSE: a JSON body that is no array)
PageResp(status, isArray, len, nlogins) ==
    [kind |-> "http", status |-> status, isArray |-> isArray, len |-> len,
     nlogins |-> nlogins]

RateLimitMsg == "GitHub API rate limit exceeded or forbidden (403). Add or rotate a token."
MembersForbiddenMsg == "Org members forbidden or rate limited (403)."
FetchFailedMsg == "fetch failed"

RECURSIVE EmailsOf(_)
\* the emails pushed by the loop of tryCommitEmail
EmailsOf(items) ==
    IF items = <<>> THEN <<>>
    ELSE IF Truthy(Head(items).email)
         THEN <<Head(items).email>> \o EmailsOf(Tail(items))
         ELSE EmailsOf(Tail(items))

RECURSIVE AuthorName(_)
\* authorName after the loop of tryCommitEmail: the first truthy author name
AuthorName(items) ==
    IF items = <<>> THEN NULL
    ELSE IF Truthy(Head(items).name) THEN Head(items).name
         ELSE AuthorName(Tail(items))

\* tryCommitEmail, from the answer to its fetch
tryCommitEmail(res) ==
    IF res.kind = "neterr" THEN Thrown(FetchFailedMsg)
    ELSE IF res.status = 422 THEN NullRes
    ELSE IF res.status = 403 THEN Thrown(RateLimitMsg)
    ELSE IF ~IsOk(res.status) THEN NullRes
    ELSE LET items == IF res.isArray THEN res.items ELSE <<>>
         IN  IF Len(items) = 0 THEN NullRes
             ELSE Val([emails |-> dedupe(EmailsOf(items)),
                       name |-> AuthorName(items)])

\* a checkIsOrg with the test on res.ok inverted
checkIsOrgUnlessOk(res) ==
    IF res.kind = "neterr" THEN Thrown(FetchFailedMsg)
    ELSE IF ~IsOk(res.status) THEN Val(TRUE)
    ELSE Val(res.type = "Organization")

\* a checkIsOrg that takes every reachable profile for a user's
checkIsOrgNever(res) == Val(FALSE)

\* checkIsOrg, from the answer to its fetch
checkIsOrg(res) ==
    IF res.kind = "neterr" THEN Thrown(FetchFailedMsg)
    ELSE IF ~IsOk(res.status) THEN Val(FALSE)
    ELSE Val(res.type = "Organization")

\* getUserProfile, from the answer to its fetch
getUserProfile(res) ==
    IF res.kind = "neterr" THEN Thrown(FetchFailedMsg)
    ELSE IF ~IsOk(res.status) THEN NullRes
    ELSE Val([name |-> OrNull(res.name), email |-> OrNull(res.email)])

(***************************************************************************)
(* getOrgMembers                                                           *)
(***************************************************************************)
perPage == 100

\* the login of the n-th member the listing endpoint knows
MemberLogin(n) == <<"m", ToString(n)>>

\* data of page p: res.len entries, the first res.nlogins with a login, the
\* others with an empty one
PageData(p, res) ==
    [k \in 1..res.len |->
        [login |-> IF k <= res.nlogins
                   THEN MemberLogin((p - 1) * perPage + k)
                   ELSE <<>>]]

\* m?.login
HasLogin(m) == m.login # <<>>

\* for (const m of data) if (m?.login) members.push({ login: m.login })
PushLogins(ms, entries) ==
    LET kept == SelectSeq(entries, HasLogin)
    IN  ms \o [k \in 1..Len(kept) |-> kept[k].login]

\* a paging test that goes on after every non-empty page
LastPageIfEmpty(len) == len = 0

\* if (data.length < perPage) break
LastPage(len) == len < perPage

\* one turn of the while loop of getOrgMembers, from the answer to its fetch:
\* how the turn ends (break, throw, or page++ and sleep) and members after it
getOrgMembersTurn(ms, p, res) ==
    IF res.kind = "neterr" THEN [next |-> "throw", members |-> ms]
    ELSE IF res.status = 404 THEN [next |-> "break", members |-> ms]
    ELSE IF res.status = 403 THEN [next |-> "throw", members |-> ms]
    ELSE IF ~IsOk(res.status) THEN [next |-> "break", members |-> ms]
    ELSE IF ~res.isArray \/ res.len = 0 THEN [next |-> "break", members |-> ms]
    ELSE LET pushed == PushLogins(ms, PageData(p, res))
         IN  IF LastPage(res.len)
             THEN [next |-> "break", members |-> pushed]
             ELSE [next |-> "continue", members |-> pushed]

\* getOrgMembers(name).catch(() => []): the members resolveName goes on with
\* when the enumeration ended with this turn
MembersAfterCatch(turn) ==
    IF turn.next = "throw" THEN <<>> ELSE turn.members

(***************************************************************************)
(* resolveName: the records it returns                                     *)
(***************************************************************************)
batchSize == 5

\* the same test, off by one
HasSeveralEmails(userEmail) ==
    userEmail.t = "val" /\ Len(userEmail.v.emails) > 1

\* userEmail?.emails?.length
HasEmails(userEmail) ==
    userEmail.t = "val" /\ Len(userEmail.v.emails) > 0

\* a row whose profileUrl lacks the login
UserRowBareUrl(login, name, emails) ==
    [login |-> login, name |-> name, profileUrl |-> <<"https://github.com/">>,
     emails |-> emails]

UserRow(login, name, emails) ==
    [login |-> login, name |-> name, profileUrl |-> ProfileUrl(login),
     emails |-> emails]

\* the record returned when the commit search found emails
CommitRecord(name, userEmail) ==
    [input |-> name, type |-> "user",
     users |-> <<UserRow(name, OrNull(userEmail.v.name),
                         dedupe(userEmail.v.emails))>>]

\* profile?.email ? [profile.email] : []
ProfileEmail(profile) ==
    IF profile.t = "val" /\ Truthy(profile.v.email)
    THEN <<profile.v.email>> ELSE <<>>

\* profile?.name ?? null
ProfileName(profile) ==
    IF profile.t = "val" THEN OrNull(profile.v.name) ELSE NULL

\* the record returned when the name is no organization
ProfileRecord(name, profile) ==
    [input |-> name, type |-> "user",
     users |-> <<UserRow(name, ProfileName(profile),
                         dedupe(ProfileEmail(profile)))>>]

\* commitResult?.emails ?? []
CommitEmails(commitResult) ==
    IF commitResult.t = "val" THEN commitResult.v.emails ELSE <<>>

\* a member row that takes the author name of the commit search when the
\* profile gave none
MemberRowAuthorName(login, profile, commitResult) ==
    UserRow(login,
            IF ProfileName(profile) # NULL THEN ProfileName(profile)
            ELSE IF commitResult.t = "val" THEN commitResult.v.name ELSE NULL,
            dedupe(ProfileEmail(profile) \o CommitEmails(commitResult)))

\* a member row that merges the commit emails before the profile email
MemberRowCommitFirst(login, profile, commitResult) ==
    UserRow(login, ProfileName(profile),
            dedupe(CommitEmails(commitResult) \o ProfileEmail(profile)))

\* the row the callback of chunk.map returns for one member
MemberRow(login, profile, commitResult) ==
    UserRow(login, ProfileName(profile),
            dedupe(ProfileEmail(profile) \o CommitEmails(commitResult)))

\* the record returned by the org branch
OrgRecord(name, us) == [input |-> name, type |-> "org", users |-> us]

(***************************************************************************)
(* The requests and the answers explored                                   *)
(***************************************************************************)
MaxInputs == 2      \* longest body.inputs
MaxMembers == 6     \* most members of an organization
SmallOrg == 2       \* most members of an organization whose profile fetches may reject
MaxPages == 3       \* most full member pages of the enumeration explored on its own

Str(chars) == [kind |-> "str", chars |-> chars]
NullInput == [kind |-> "null"]

\* the elements body.inputs is made of: null, " ", "a" and " b "
RawInputs == {NullInput, Str(<<" ">>), Str(<<"a">>), Str(<<" ", "b", " ">>)}

InputLists == UNION {[1..n -> RawInputs] : n \in 0..MaxInputs}

\* the request bodies: JSON that does not parse, an object without inputs,
\* inputs that is a number, and the lists of strings
Bodies ==
    {[kind |-> "badjson"], [kind |-> "noinputs"], [kind |-> "notarray"]}
    \cup {[kind |-> "list", inputs |-> l] : l \in InputLists}

NoResp == [kind |-> "none"]

CommitAnswers ==
    { NetErr,
      CommitResp(422, FALSE, <<>>),
      CommitResp(403, FALSE, <<>>),
      CommitResp(200, TRUE, <<>>),
      CommitResp(200, TRUE, <<Item(NULL, "N1")>>),
      CommitResp(200, TRUE, <<Item("e1", "N1")>>),
      CommitResp(200, TRUE, <<Item("e1", NULL), Item("e2", "N2"), Item("e1", "N1")>>) }

IsOrgAnswers ==
    { NetErr,
      UserResp(404, NULL, NULL, NULL),
      UserResp(200, "User", "N1", "e1"),
      UserResp(200, "Organization", "N3", "e1") }

ProfileAnswers ==
    { NetErr,
      UserResp(404, NULL, NULL, NULL),
      UserResp(200, "User", "N1", "e1"),
      UserResp(200, "User", NULL, NULL) }

MemberProfileAnswers ==
    { UserResp(404, NULL, NULL, NULL),
      UserResp(200, "User", "N1", "e1") }
    \cup (IF Len(members) <= SmallOrg THEN {NetErr} ELSE {})

MemberCommitAnswers ==
    { CommitResp(403, FALSE, <<>>),
      CommitResp(200, TRUE, <<Item("e2", NULL), Item("e1", "N2"), Item("e2", "N1")>>) }

\* Organizations of several members are explored for the requests whose
\* inputs has one element; the member enumeration explored on its own lists
\* full pages of members.
MemberRoom ==
    IF body.kind = "direct" THEN perPage * (MaxPages + 1)
    ELSE IF Len(body.inputs) = 1 THEN MaxMembers - Len(members)
    ELSE 1 - Len(members)

ShortPageSizes ==
    IF body.kind = "direct" THEN {1, 37} ELSE {1, SmallOrg, MaxMembers}

\* the full pages: perPage entries, and how many of them carry a login
FullPageLogins(p) ==
    IF body.kind = "direct"
    THEN IF p <= MaxPages THEN {perPage - 1, perPage} ELSE {}
    ELSE IF p = 1 THEN {1} ELSE {}

\* the answers to the fetch of page p
PageAnswers(p) ==
    { PageResp(404, FALSE, 0, 0),
      PageResp(403, FALSE, 0, 0),
      PageResp(200, TRUE, 0, 0) }
    \cup (IF body.kind = "direct"
          THEN {NetErr, PageResp(500, FALSE, 0, 0), PageResp(200, FALSE, 0, 0)}
          ELSE {})
    \cup { PageResp(200, TRUE, n, n) : n \in {k \in ShortPageSizes : k <= MemberRoom} }
    \cup { PageResp(200, TRUE, perPage, n) : n \in {k \in FullPageLogins(p) : k <= MemberRoom} }

(***************************************************************************)
(* The request as a state machine: one action per await                    *)
(***************************************************************************)
Req(i, m, ep, p) == [idx |-> i, m |-> m, ep |-> ep, page |-> p]

NoObs == [commit |-> NoResp, isorg |-> NoResp, profile |-> NoResp]

NoMembers == [k \in {} |-> NoResp]

Is403(res) == res.kind = "http" /\ res.status = 403

Note403(res) == IF saw403 = 0 /\ Is403(res) THEN cur ELSE saw403

NoteFirst(res) == IF cur = 1 THEN Is403(res) ELSE first403

Pending == [status |-> 0]

\* NextResponse.json({ ok: true, results }, { status: 200 })
Success(rs) == [status |-> 200, ok |-> TRUE, results |-> rs]

\* a failure answer that also carries the records pushed so far
FailureWithResults(msg) ==
    [status |-> 500, ok |-> FALSE, results |-> results,
     error |-> IF Truthy(msg) THEN msg ELSE "Unknown error"]

\* NextResponse.json({ ok: false, error: e?.message || "Unknown error" }, { status: 500 })
Failure(msg) ==
    [status |-> 500, ok |-> FALSE,
     error |-> IF Truthy(msg) THEN msg ELSE "Unknown error"]

\* a state value that is null, or that holds v
None == [null |-> TRUE]
Some(v) == [null |-> FALSE, v |-> v]

\* the page as rendered first: useState(""), useState(false), useState(null)
ClientIdle ==
    /\ input = <<>>
    /\ loading = FALSE
    /\ data = None
    /\ error = NULL
    /\ cpc = "idle"
    /\ sent = <<>>
    /\ answer = NoResp
    /\ shown = [data |-> FALSE, error |-> FALSE]

Init ==
    /\ body \in Bodies
    /\ pc = "start"
    /\ raw = <<>>
    /\ cur = 0
    /\ results = <<>>
    /\ response = Pending
    /\ inflight = {}
    /\ page = 0
    /\ members = <<>>
    /\ users = <<>>
    /\ chunkAt = 0
    /\ mstate = NoMembers
    /\ obs = NoObs
    /\ fetched = <<>>
    /\ enumOutcome = "none"
    /\ mobs = <<>>
    /\ first403 = FALSE
    /\ saw403 = 0
    /\ issuedFor = {}
    /\ ClientIdle

\* resolveName(raw[i]) up to its first await: the commit search is issued
BeginName(i) ==
    /\ cur' = i
    /\ pc' = "commit"
    /\ inflight' = {Req(i, 0, "commits", 0)}
    /\ issuedFor' = issuedFor \cup {i}
    /\ obs' = NoObs
    /\ fetched' = <<>>
    /\ enumOutcome' = "none"
    /\ mobs' = <<>>
    /\ page' = 0
    /\ members' = <<>>
    /\ users' = <<>>
    /\ chunkAt' = 0
    /\ mstate' = NoMembers

\* a catch block that answers nothing
RespondUnlessFailure(r) ==
    IF r.ok
    THEN /\ response' = r
         /\ pc' = "done"
         /\ inflight' = {}
    ELSE UNCHANGED <<response, pc, inflight>>

\* the request is answered
Respond(r) ==
    /\ response' = r
    /\ pc' = "done"
    /\ inflight' = {}

\* POST from its call to the first fetch (or to its response)
PostStart ==
    /\ pc = "start"
    /\ UNCHANGED clientVars
    /\ UNCHANGED <<body, results, first403, saw403>>
    /\ IF body.kind = "badjson"
       THEN /\ Respond(Failure("Unexpected token in JSON"))
            /\ UNCHANGED <<raw, cur, page, members, users, chunkAt, mstate,
                           obs, fetched, enumOutcome, mobs, issuedFor>>
       ELSE IF body.kind = "notarray"
       THEN /\ Respond(Failure("(body.inputs || []).map is not a function"))
            /\ UNCHANGED <<raw, cur, page, members, users, chunkAt, mstate,
                           obs, fetched, enumOutcome, mobs, issuedFor>>
       ELSE LET r == IF body.kind = "noinputs" THEN <<>>
                     ELSE MapTrimFilter(body.inputs)
            IN  /\ raw' = r
                /\ IF r = <<>>
                   THEN /\ Respond(Success(results))
                        /\ UNCHANGED <<cur, page, members, users, chunkAt,
                                       mstate, obs, fetched, enumOutcome,
                                       mobs, issuedFor>>
                   ELSE /\ BeginName(1)
                        /\ UNCHANGED response

\* results.push(resolved); await sleep(150)
PushResult(rec) ==
    /\ results' = Append(results, rec)
    /\ pc' = "sleep150"
    /\ inflight' = {}

\* the commit search of the name is answered
CommitReturn ==
    /\ pc = "commit"
    /\ UNCHANGED clientVars
    /\ \E res \in CommitAnswers :
         LET userEmail == CatchNull(tryCommitEmail(res))
         IN  /\ obs' = [obs EXCEPT !.commit = res]
             /\ first403' = NoteFirst(res)
             /\ saw403' = Note403(res)
             /\ IF HasEmails(userEmail)
                THEN PushResult(CommitRecord(raw[cur], userEmail))
                ELSE /\ pc' = "isorg"
                     /\ inflight' = {Req(cur, 0, "user", 0)}
                     /\ UNCHANGED results
    /\ UNCHANGED <<body, raw, cur, response, page, members, users, chunkAt,
                   mstate, fetched, enumOutcome, mobs, issuedFor>>

\* the profile fetch of checkIsOrg is answered
CheckIsOrgReturn ==
    /\ pc = "isorg"
    /\ UNCHANGED clientVars
    /\ \E res \in IsOrgAnswers :
         LET o == checkIsOrg(res)
             isOrg == IF o.t = "throw" THEN FALSE ELSE o.v
         IN  /\ obs' = [obs EXCEPT !.isorg = res]
             /\ saw403' = Note403(res)
             /\ IF isOrg
                THEN /\ pc' = "members"
                     /\ page' = 1
                     /\ inflight' = {Req(cur, 0, "members", 1)}
                ELSE /\ pc' = "profile"
                     /\ inflight' = {Req(cur, 0, "user", 0)}
                     /\ UNCHANGED page
    /\ UNCHANGED <<body, raw, cur, results, response, members, users, chunkAt,
                   mstate, fetched, enumOutcome, mobs, first403, issuedFor>>

\* the profile fetch of getUserProfile(name) is answered
ProfileReturn ==
    /\ pc = "profile"
    /\ UNCHANGED clientVars
    /\ \E res \in ProfileAnswers :
         LET profile == CatchNull(getUserProfile(res))
         IN  /\ obs' = [obs EXCEPT !.profile = res]
             /\ saw403' = Note403(res)
             /\ PushResult(ProfileRecord(raw[cur], profile))
    /\ UNCHANGED <<body, raw, cur, response, page, members, users, chunkAt,
                   mstate, fetched, enumOutcome, mobs, first403, issuedFor>>

Min(a, b) == IF a < b THEN a ELSE b

\* the same without the end of the slice
ChunkOfRest(ms, at) == (at + 1)..Len(ms)

\* const chunk = members.slice(at, at + batchSize), as indices of members
ChunkOf(ms, at) == (at + 1)..Min(at + batchSize, Len(ms))

\* the same with the two fetches of every member issued together
StartChunkBothFetches(ms, at) ==
    /\ chunkAt' = at
    /\ mstate' = [k \in ChunkOf(ms, at) |->
                    [st |-> "profile", prof |-> NoResp, com |-> NoResp]]
    /\ inflight' = {Req(cur, k, ep, 0) :
                       k \in ChunkOf(ms, at), ep \in {"user", "commits"}}
    /\ pc' = "enrich"

\* Promise.all(chunk.map(async (m) => ...)) up to the first await of every
\* callback: the profile fetch of every member of the chunk is issued
StartChunk(ms, at) ==
    /\ chunkAt' = at
    /\ mstate' = [k \in ChunkOf(ms, at) |->
                    [st |-> "profile", prof |-> NoResp, com |-> NoResp]]
    /\ inflight' = {Req(cur, k, "user", 0) : k \in ChunkOf(ms, at)}
    /\ pc' = "enrich"

\* the same with the member callbacks started and not awaited
AfterEnumerationNotAwaited(ms) ==
    /\ members' = ms
    /\ results' = Append(results, OrgRecord(raw[cur], users))
    /\ pc' = "sleep150"
    /\ inflight' = {Req(cur, k, "user", 0) : k \in ChunkOf(ms, 0)}
    /\ UNCHANGED <<chunkAt, mstate>>

\* resolveName after getOrgMembers(name).catch(() => []) settled with ms
AfterEnumeration(ms) ==
    /\ members' = ms
    /\ IF 0 < Len(ms)
       THEN /\ StartChunk(ms, 0)
            /\ UNCHANGED results
       ELSE /\ PushResult(OrgRecord(raw[cur], users))
            /\ UNCHANGED <<chunkAt, mstate>>

\* the fetch of a member page is answered
MembersPageReturn ==
    /\ pc = "members"
    /\ UNCHANGED clientVars
    /\ \E res \in PageAnswers(page) :
         LET turn == getOrgMembersTurn(members, page, res)
         IN  /\ fetched' = Append(fetched, [page |-> page, res |-> res])
             /\ saw403' = Note403(res)
             /\ IF turn.next = "continue"
                THEN /\ members' = turn.members
                     /\ page' = page + 1
                     /\ pc' = "sleep120"
                     /\ inflight' = {}
                     /\ UNCHANGED <<results, chunkAt, mstate, enumOutcome>>
                ELSE /\ enumOutcome' = IF turn.next = "throw" THEN "threw"
                                       ELSE "returned"
                     /\ AfterEnumeration(MembersAfterCatch(turn))
                     /\ UNCHANGED page
    /\ UNCHANGED <<body, raw, cur, response, users, obs, mobs, first403,
                   issuedFor>>

\* await sleep(120) is over: the next member page is fetched
MembersSleepDone ==
    /\ pc = "sleep120"
    /\ UNCHANGED clientVars
    /\ pc' = "members"
    /\ inflight' = {Req(cur, 0, "members", page)}
    /\ UNCHANGED <<body, raw, cur, results, response, page, members, users,
                   chunkAt, mstate, obs, fetched, enumOutcome, mobs,
                   first403, saw403, issuedFor>>

\* the profile fetch of one member of the chunk is answered; its callback
\* goes on to the commit search
MemberProfileReturn ==
    /\ pc = "enrich"
    /\ UNCHANGED clientVars
    /\ \E k \in DOMAIN mstate :
         /\ mstate[k].st = "profile"
         /\ \E res \in MemberProfileAnswers :
              /\ mstate' = [mstate EXCEPT ![k].st = "commit", ![k].prof = res]
              /\ inflight' = (inflight \ {Req(cur, k, "user", 0)})
                                \cup {Req(cur, k, "commits", 0)}
    /\ UNCHANGED <<body, pc, raw, cur, results, response, page, members,
                   users, chunkAt, obs, fetched, enumOutcome, mobs,
                   first403, saw403, issuedFor>>

\* the callback of one member, from the answers prof and com to its fetches:
\* const profile = await getUserProfile(m.login).catch(() => null);
\* const commitResult = await tryCommitEmail(m.login).catch(() => null);
\* return { login, name, profileUrl, emails }
MemberResult(login, prof, com) ==
    CHOOSE row \in { MemberRow(login, profile, commitResult) :
                        profile \in {CatchNull(getUserProfile(prof))},
                        commitResult \in {CatchNull(tryCommitEmail(com))} } :
        TRUE

RowSettled(x) == ~x.rejected

\* the rows of the members of the chunk whose commit search did not reject
\* with a 403, as if the rejection were not caught in the callback
ChunkResultsDropRejected(ms, st) ==
    LET lo == CHOOSE k \in DOMAIN st : \A j \in DOMAIN st : k <= j
        all == [n \in 1..Cardinality(DOMAIN st) |->
                  [rejected |-> Is403(st[lo + n - 1].com),
                   row |-> MemberResult(ms[lo + n - 1], st[lo + n - 1].prof,
                                  st[lo + n - 1].com)]]
        kept == SelectSeq(all, RowSettled)
    IN  [n \in 1..Len(kept) |-> kept[n].row]

\* the rows of the chunk, in the order of the chunk
ChunkResults(ms, st) ==
    LET lo == CHOOSE k \in DOMAIN st : \A j \in DOMAIN st : k <= j
    IN  [n \in 1..Cardinality(DOMAIN st) |->
            MemberResult(ms[lo + n - 1], st[lo + n - 1].prof,
                         st[lo + n - 1].com)]

ChunkObs(st) ==
    LET lo == CHOOSE k \in DOMAIN st : \A j \in DOMAIN st : k <= j
    IN  [n \in 1..Cardinality(DOMAIN st) |->
            [prof |-> st[lo + n - 1].prof, com |-> st[lo + n - 1].com]]

\* the commit search of one member of the chunk is answered; its callback
\* returns, and when it was the last of the chunk Promise.all resolves:
\* users.push(...chunkResults); await sleep(250)
MemberCommitReturn ==
    /\ pc = "enrich"
    /\ UNCHANGED clientVars
    /\ \E k \in DOMAIN mstate :
         /\ mstate[k].st = "commit"
         /\ \E res \in MemberCommitAnswers :
              LET st == [mstate EXCEPT ![k].st = "done", ![k].com = res]
              IN  /\ inflight' = inflight \ {Req(cur, k, "commits", 0)}
                  /\ IF \A j \in DOMAIN st : st[j].st = "done"
                     THEN /\ users' = users \o ChunkResults(members, st)
                          /\ mobs' = mobs \o ChunkObs(st)
                          /\ mstate' = NoMembers
                          /\ pc' = "sleep250"
                     ELSE /\ mstate' = st
                          /\ UNCHANGED <<users, mobs, pc>>
    /\ UNCHANGED <<body, raw, cur, results, response, page, members,
                   chunkAt, obs, fetched, enumOutcome, first403, saw403,
                   issuedFor>>

\* await sleep(250) is over: the next chunk starts, or resolveName returns
BatchSleepDone ==
    /\ pc = "sleep250"
    /\ UNCHANGED clientVars
    /\ IF chunkAt + batchSize < Len(members)
       THEN /\ StartChunk(members, chunkAt + batchSize)
            /\ UNCHANGED results
       ELSE /\ PushResult(OrgRecord(raw[cur], users))
            /\ UNCHANGED <<chunkAt, mstate>>
    /\ UNCHANGED <<body, raw, cur, response, page, members, users, obs,
                   fetched, enumOutcome, mobs, first403, saw403, issuedFor>>

\* await sleep(150) is over: the next name is resolved, or POST returns
NameSleepDone ==
    /\ pc = "sleep150"
    /\ UNCHANGED clientVars
    /\ IF cur < Len(raw)
       THEN /\ BeginName(cur + 1)
            /\ UNCHANGED response
       ELSE /\ Respond(Success(results))
            /\ UNCHANGED <<cur, page, members, users, chunkAt, mstate, obs,
                           fetched, enumOutcome, mobs, issuedFor>>
    /\ UNCHANGED <<body, raw, results, first403, saw403>>

Next ==
    \/ PostStart
    \/ CommitReturn
    \/ CheckIsOrgReturn
    \/ ProfileReturn
    \/ MembersPageReturn
    \/ MembersSleepDone
    \/ MemberProfileReturn
    \/ MemberCommitReturn
    \/ BatchSleepDone
    \/ NameSleepDone

Spec == Init /\ [][Next]_vars

(***************************************************************************)
(* getOrgMembers on its own: the enumeration of one organization whose     *)
(* listing serves pages of up to perPage members.                          *)
(***************************************************************************)
InitMembers ==
    /\ body = [kind |-> "direct"]
    /\ pc = "members"
    /\ raw = << <<"o">> >>
    /\ cur = 1
    /\ results = <<>>
    /\ response = Pending
    /\ inflight = {Req(1, 0, "members", 1)}
    /\ page = 1
    /\ members = <<>>
    /\ users = <<>>
    /\ chunkAt = 0
    /\ mstate = NoMembers
    /\ obs = NoObs
    /\ fetched = <<>>
    /\ enumOutcome = "none"
    /\ mobs = <<>>
    /\ first403 = FALSE
    /\ saw403 = 0
    /\ issuedFor = {1}
    /\ ClientIdle

NextMembers ==
    \/ MembersPageReturn
    \/ MembersSleepDone

SpecMembers == InitMembers /\ [][NextMembers]_vars

(***************************************************************************)
(* The form of the page: handleRun posts the names typed in the textarea   *)
(* to the route and shows its results or an error.                         *)
(***************************************************************************)
MaxText == 3        \* longest text typed in the textarea

Separators == {",", "\n"}

\* the texts typed: names of the letter a, blanks, commas and line breaks
Texts == UNION {[1..n -> {"a", " "} \cup Separators] : n \in 0..MaxText}

RECURSIVE SplitFrom(_, _)
\* the pieces of text, piece being the one begun
SplitFrom(text, piece) ==
    IF text = <<>> THEN <<piece>>
    ELSE IF Head(text) \in Separators
         THEN <<piece>> \o SplitFrom(Tail(text), <<>>)
         ELSE SplitFrom(Tail(text), Append(piece, Head(text)))

\* input.split(/[\n,]/g)
Split(text) == SplitFrom(text, <<>>)

NotEmpty(s) == s # <<>>

\* input.split(/[\n,]/g).map((s) => s.trim()).filter(Boolean)
SplitTrimFilter(text) ==
    LET pieces == Split(text)
    IN  SelectSeq([i \in 1..Len(pieces) |-> Trim(pieces[i])], NotEmpty)

EmptyInputMsg == "Please enter at least one GitHub username or organization."
FailedToFetchMsg == "Failed to fetch"
JsonParseMsg == "Unexpected token '<' is not valid JSON"

\* `Request failed (${res.status})`
RequestFailedMsg(status) == "Request failed (" \o ToString(status) \o ")"

\* e?.message || "Unknown error"
MessageOf(msg) == IF Truthy(msg) THEN msg ELSE "Unknown error"

\* fetch resolved with a response of this status; its body is not read yet
Headers(status) == [kind |-> "headers", status |-> status]

\* a response whose body parsed (or not) as JSON: whether json.ok is truthy,
\* json.error (NULL when absent) and json.results (None when absent)
JsonBody(status, parses, ok, err, res) ==
    [kind |-> "http", status |-> status, parses |-> parses, ok |-> ok,
     error |-> err, results |-> res]

\* the body the route returns, as the page reads it
RouteBody(r) ==
    JsonBody(r.status, TRUE, r.ok,
             IF r.ok THEN NULL ELSE r.error,
             IF r.ok THEN Some(r.results) ELSE None)

\* the statuses fetch resolves with: of the route, of a missing deployment
\* and of a gateway in front of it
Statuses == {200, 404, 500, 502}

\* the bodies that come with a status: the two answers of the route (one
\* record per name posted when it succeeds), a body that is no JSON, and a
\* JSON object that is not of the route
JsonAnswers(status) ==
    IF status = 200
    THEN {RouteBody(Success([n \in 1..Len(sent) |->
                                ProfileRecord(sent[n], NullRes)]))}
    ELSE IF status = 500
    THEN {RouteBody(Failure(NULL)), RouteBody(Failure(RateLimitMsg)),
          JsonBody(500, FALSE, FALSE, NULL, None)}
    ELSE IF status = 404
    THEN {JsonBody(404, TRUE, FALSE, NULL, None)}
    ELSE {JsonBody(status, FALSE, FALSE, NULL, None)}

\* the try block after res.json() settled with ans
AfterJson(ans) ==
    IF ~ans.parses THEN Thrown(JsonParseMsg)
    ELSE IF ~IsOk(ans.status) \/ ~ans.ok
    THEN Thrown(IF Truthy(ans.error) THEN ans.error
                ELSE RequestFailedMsg(ans.status))
    ELSE Val(ans.results)

\* the same with setLoading(false) at the end of the try block only
CatchWithoutFinally(o) ==
    IF o.t = "throw"
    THEN [loading |-> TRUE, data |-> None, error |-> MessageOf(o.msg)]
    ELSE [loading |-> FALSE, data |-> o.v, error |-> NULL]

\* the state set by the end of the try block, its catch and its finally,
\* data and error having been cleared
CatchFinally(o) ==
    IF o.t = "throw"
    THEN [loading |-> FALSE, data |-> None, error |-> MessageOf(o.msg)]
    ELSE [loading |-> FALSE, data |-> o.v, error |-> NULL]

\* handleRun returns, the try block having ended with o
Return(o) ==
    /\ loading' = CatchFinally(o).loading
    /\ data' = CatchFinally(o).data
    /\ error' = CatchFinally(o).error
    /\ cpc' = "returned"

InitClient ==
    /\ body = [kind |-> "noinputs"]
    /\ pc = "start"
    /\ raw = <<>>
    /\ cur = 0
    /\ results = <<>>
    /\ response = Pending
    /\ inflight = {}
    /\ page = 0
    /\ members = <<>>
    /\ users = <<>>
    /\ chunkAt = 0
    /\ mstate = NoMembers
    /\ obs = NoObs
    /\ fetched = <<>>
    /\ enumOutcome = "none"
    /\ mobs = <<>>
    /\ first403 = FALSE
    /\ saw403 = 0
    /\ issuedFor = {}
    /\ ClientIdle

\* the values of the textarea one edit away from text: a character typed at
\* its end, or its last character deleted
Edits(text) ==
    {t \in Texts : \/ Len(t) = Len(text) + 1 /\ SubSeq(t, 1, Len(text)) = text
                   \/ Len(text) = Len(t) + 1 /\ SubSeq(text, 1, Len(t)) = t}

\* onChange of the textarea: setInput(e.target.value)
SetInput ==
    /\ \E text \in Edits(input) : input' = text
    /\ UNCHANGED <<loading, data, error, cpc, sent, answer, shown>>
    /\ UNCHANGED serverVars

\* a click on the button, which is disabled while loading: handleRun up to
\* its first await, or to its return when no name was typed
HandleRun ==
    /\ ~loading
    /\ shown' = [data |-> data # None, error |-> error # NULL]
    /\ answer' = NoResp
    /\ LET inputs == SplitTrimFilter(input)
       IN  /\ sent' = inputs
           /\ data' = None
           /\ IF inputs = <<>>
              THEN /\ loading' = FALSE
                   /\ error' = EmptyInputMsg
                   /\ cpc' = "returned"
              ELSE /\ loading' = TRUE
                   /\ error' = NULL
                   /\ cpc' = "fetch"
    /\ UNCHANGED input
    /\ UNCHANGED serverVars

\* await fetch("/api/emails", ...) settles: it rejects, or resolves with the
\* status of the response
FetchReturn ==
    /\ cpc = "fetch"
    /\ \/ /\ answer' = NetErr
          /\ Return(Thrown(FailedToFetchMsg))
       \/ \E status \in Statuses :
            /\ answer' = Headers(status)
            /\ cpc' = "json"
            /\ UNCHANGED <<loading, data, error>>
    /\ UNCHANGED <<input, sent, shown>>
    /\ UNCHANGED serverVars

\* await res.json() settles: the rest of the try block runs
JsonReturn ==
    /\ cpc = "json"
    /\ \E ans \in JsonAnswers(answer.status) :
         /\ answer' = ans
         /\ Return(AfterJson(ans))
    /\ UNCHANGED <<input, sent, shown>>
    /\ UNCHANGED serverVars

NextClient ==
    \/ SetInput
    \/ HandleRun
    \/ FetchReturn
    \/ JsonReturn

\* The text may be edited and the button clicked at any time or never; a
\* fetch that was issued settles, and so does the reading of its body.
SpecClient ==
    InitClient /\ [][NextClient]_vars
    /\ WF_vars(FetchReturn) /\ WF_vars(JsonReturn)

(***************************************************************************)
(* Properties                                                              *)
(***************************************************************************)
\* the record resolveName returned for the current name, once pushed
Resolved == pc = "sleep150"
LastRecord == results[Len(results)]

NoDuplicates(seq) ==
    \A i, j \in 1..Len(seq) : seq[i] = seq[j] => i = j

Elems(seq) == {seq[i] : i \in 1..Len(seq)}

FirstIndex(seq, v) ==
    CHOOSE i \in 1..Len(seq) : seq[i] = v /\ \A j \in 1..(i - 1) : seq[j] # v

\* out holds every value of in once, in the order of the first occurrences
FirstOccurrencesOf(out, in) ==
    /\ NoDuplicates(out)
    /\ Elems(out) = Elems(in)
    /\ \A i, j \in 1..Len(out) :
         i < j => FirstIndex(in, out[i]) < FirstIndex(in, out[j])

\* the commit search answered with at least one hit
HasHits(res) ==
    res.kind = "http" /\ res.status = 200 /\ res.isArray /\ Len(res.items) > 0

\* the commit search was answered, and with no hit
HasNoHits(res) == res.kind # "none" /\ ~HasHits(res)

\* an element of inputs that names nothing: null, or spaces only
IsBlankEntry(e) ==
    e.kind = "null" \/ \A i \in 1..Len(e.chars) : e.chars[i] = " "

IsNameEntry(e) == ~IsBlankEntry(e)

\* the characters of a non-blank element from its first to its last non-space
NameOfEntry(e) ==
    LET idx == {i \in 1..Len(e.chars) : e.chars[i] # " "}
        lo == CHOOSE i \in idx : \A j \in idx : i <= j
        hi == CHOOSE i \in idx : \A j \in idx : j <= i
    IN  SubSeq(e.chars, lo, hi)

\* the trimmed non-blank names of the body, in input order
NamesOf(b) ==
    IF b.kind = "list"
    THEN LET named == SelectSeq(b.inputs, IsNameEntry)
         IN  [i \in 1..Len(named) |-> NameOfEntry(named[i])]
    ELSE <<>>

\* C1: a request whose list holds a non-blank name is answered 200 with one
\* record per non-blank name, in input order, record i carrying the i-th
\* trimmed non-blank name as input; equal names each get their record.
C1_OneRecordPerName ==
    (pc = "done" /\ body.kind = "list" /\ NamesOf(body) # <<>>) =>
        /\ response.status = 200
        /\ response.ok
        /\ Len(response.results) = Len(NamesOf(body))
        /\ \A i \in 1..Len(NamesOf(body)) :
             response.results[i].input = NamesOf(body)[i]

\* C1 witness: the answer to [" b ", " b "] holds two records for "b"
C1_Witness ==
    /\ pc = "done"
    /\ body = [kind |-> "list",
               inputs |-> <<Str(<<" ", "b", " ">>), Str(<<" ", "b", " ">>)>>]
    /\ Len(response.results) = 2
    /\ response.results[1].input = <<"b">>
    /\ response.results[2].input = <<"b">>

\* C2: when the commit search of the first name is answered 403, the request
\* is answered 500 with ok = false and no results.
C2_First403Fails ==
    (pc = "done" /\ first403) =>
        /\ response.status = 500
        /\ response.ok = FALSE
        /\ "results" \notin DOMAIN response

\* C3: once a top-level call of name i was answered 403, no fetch is issued
\* for a later name of the batch.
C3_NoCallAfter403 ==
    saw403 # 0 => \A j \in issuedFor : j <= saw403

\* C4 as claimed: a name whose commit search has a hit resolves to type
\* "user", whatever the hits carry.
C4_HitsYieldUser ==
    (Resolved /\ HasHits(obs.commit)) => LastRecord.type = "user"

\* C4 as amended: a name whose commit search has a hit carrying an author
\* email resolves to type "user" with one user, and its profile is not looked
\* up at all (so its being an organization changes nothing).
C4_EmailHitsYieldUser ==
    (Resolved /\ HasHits(obs.commit) /\ EmailsOf(obs.commit.items) # <<>>) =>
        /\ LastRecord.type = "user"
        /\ Len(LastRecord.users) = 1
        /\ obs.isorg = NoResp
        /\ obs.profile = NoResp

\* C4 witness: hits with two distinct emails gave a user record
C4_Witness ==
    /\ Resolved
    /\ HasHits(obs.commit)
    /\ Len(obs.commit.items) = 3
    /\ LastRecord.type = "user"
    /\ LastRecord.users[1].emails = <<"e1", "e2">>

\* C5: a name whose commit search has no hit and whose profile answers with
\* type "Organization" resolves to type "org".
C5_OrgProfileYieldsOrg ==
    (Resolved /\ HasNoHits(obs.commit) /\ obs.isorg.kind = "http"
        /\ obs.isorg.status = 200 /\ obs.isorg.type = "Organization") =>
        LastRecord.type = "org"

\* C5 witness: an empty hit list and an Organization profile gave an org record
C5_Witness ==
    /\ Resolved
    /\ obs.commit = CommitResp(200, TRUE, <<>>)
    /\ obs.isorg.kind = "http"
    /\ obs.isorg.type = "Organization"
    /\ LastRecord.type = "org"

AllEmailsDistinct(recs) ==
    \A i \in 1..Len(recs) : \A k \in 1..Len(recs[i].users) :
        NoDuplicates(recs[i].users[k].emails)

\* C6: no emails list of any user of any record, pushed or returned, holds a
\* value twice.
C6_NoDuplicateEmails ==
    /\ AllEmailsDistinct(results)
    /\ \A k \in 1..Len(users) : NoDuplicates(users[k].emails)
    /\ "results" \in DOMAIN response => AllEmailsDistinct(response.results)

\* C6 witness: a returned org record has a member whose profile email e1 and
\* commit emails e2, e1, e2 were merged into e1, e2; another returned record
\* is a user record with the commit emails e1, e2.
C6_Witness ==
    /\ pc = "done"
    /\ "results" \in DOMAIN response
    /\ \E i \in 1..Len(response.results) :
         /\ response.results[i].type = "org"
         /\ \E k \in 1..Len(response.results[i].users) :
              response.results[i].users[k].emails = <<"e1", "e2">>
    /\ \E i \in 1..Len(response.results) :
         /\ response.results[i].type = "user"
         /\ response.results[i].users[1].emails = <<"e1", "e2">>

\* a body whose list of names is empty or all blank
BlankBody == body.kind \in {"noinputs", "list"} /\ NamesOf(body) = <<>>

\* C7 as claimed: a request with an empty or all-blank list is answered with
\* a 4xx status and a message, and no fetch is issued for it.
C7_BlankRejected ==
    (pc = "done" /\ BlankBody) =>
        /\ response.status >= 400 /\ response.status <= 499
        /\ "error" \in DOMAIN response
        /\ issuedFor = {}

\* C7 as amended: a request with an empty or all-blank list is answered 200
\* with ok = true and no record, and no fetch is issued for it.
C7_BlankAnswersEmpty ==
    (pc = "done" /\ BlankBody) =>
        /\ response = [status |-> 200, ok |-> TRUE, results |-> <<>>]
        /\ issuedFor = {}
        /\ inflight = {}

\* C7 witness: the body [" ", null] was answered
C7_Witness ==
    /\ pc = "done"
    /\ body = [kind |-> "list", inputs |-> <<Str(<<" ">>), NullInput>>]
    /\ response.status = 200

Has403Page == \E i \in 1..Len(fetched) : Is403(fetched[i].res)

\* C8: when a member page of an organization is answered 403, no org record
\* is produced for that name.
C8_Members403Aborts ==
    (Has403Page /\ Len(results) >= cur) => results[cur].type # "org"

\* the page is an array of at least perPage entries
FullPage(res) ==
    res.kind = "http" /\ res.status = 200 /\ res.isArray /\ res.len >= perPage

\* the logins of the entries of the i-th page fetched
LoginsOfPage(i) ==
    LET res == fetched[i].res
    IN  IF res.kind = "http" /\ res.status = 200 /\ res.isArray
        THEN [k \in 1..res.nlogins |-> MemberLogin((i - 1) * perPage + k)]
        ELSE <<>>

RECURSIVE LoginsUpTo(_)
LoginsUpTo(n) == IF n = 0 THEN <<>> ELSE LoginsUpTo(n - 1) \o LoginsOfPage(n)

\* C9: the pages fetched are 1, 2, 3, ... in order; a page that is not full
\* is the last one fetched, with no fetch pending after it; and the list
\* returned is the concatenation of the logins of the pages fetched.
C9_PagingStopsAtShortPage ==
    /\ \A i \in 1..Len(fetched) : fetched[i].page = i
    /\ \A i \in 1..Len(fetched) :
         ~FullPage(fetched[i].res) =>
            /\ i = Len(fetched)
            /\ pc \notin {"members", "sleep120"}
            /\ \A r \in inflight : r.ep # "members"
    /\ enumOutcome = "returned" => members = LoginsUpTo(Len(fetched))

\* C9 witness: pages of 100, 100 and 37 members were fetched, and no more
C9_Witness ==
    /\ enumOutcome = "returned"
    /\ Len(fetched) = 3
    /\ fetched[1].res = PageResp(200, TRUE, 100, 100)
    /\ fetched[2].res = PageResp(200, TRUE, 100, 100)
    /\ fetched[3].res = PageResp(200, TRUE, 37, 37)
    /\ Len(members) = 237
    /\ members[237] = MemberLogin(237)

ProfileFailed(res) ==
    res.kind = "neterr" \/ (res.kind = "http" /\ ~(res.status \in 200..299))

\* the rows us are those of the first Len(us) members, and a member whose
\* profile fetch failed and whose commit search had hits has no name and
\* exactly the commit emails, each once
FailedProfileRows(us) ==
    /\ Len(us) <= Len(mobs)
    /\ \A k \in 1..Len(us) :
         /\ us[k].login = members[k]
         /\ (ProfileFailed(mobs[k].prof) /\ HasHits(mobs[k].com)) =>
               /\ us[k].name = NULL
               /\ FirstOccurrencesOf(us[k].emails, EmailsOf(mobs[k].com.items))

\* C10: a member whose profile lookup fails and whose commit search succeeds
\* is in the users of the organization, with the deduplicated commit emails
\* and name = null (although the commit search had an author name).
C10_FailedProfileMember ==
    /\ FailedProfileRows(users)
    /\ (Resolved /\ LastRecord.type = "org") =>
          /\ Len(LastRecord.users) = Len(members)
          /\ FailedProfileRows(LastRecord.users)

\* C10 witness: a member whose profile fetch rejected and one whose profile
\* was answered 404 are in the record, with the commit emails e2, e1
C10_Witness ==
    /\ Resolved
    /\ LastRecord.type = "org"
    /\ \E k, l \in 1..Len(LastRecord.users) :
         /\ mobs[k].prof = NetErr
         /\ mobs[l].prof.kind = "http" /\ mobs[l].prof.status = 404
         /\ HasHits(mobs[k].com) /\ HasHits(mobs[l].com)
         /\ AuthorName(mobs[k].com.items) = "N2"
         /\ LastRecord.users[k].emails = <<"e2", "e1">>
         /\ LastRecord.users[l].emails = <<"e2", "e1">>
         /\ LastRecord.users[k].name = NULL

\* C11: a response is either a success (status 200, ok = true, one record per
\* name, no error) or a failure (status 500, ok = false, an error message, no
\* results); no response carries results and an error.
C11_TwoResponseShapes ==
    /\ pc # "done" => response = Pending
    /\ pc = "done" =>
         \/ /\ DOMAIN response = {"status", "ok", "results"}
            /\ response.status = 200
            /\ response.ok = TRUE
            /\ Len(response.results) = Len(NamesOf(body))
         \/ /\ DOMAIN response = {"status", "ok", "error"}
            /\ response.status = 500
            /\ response.ok = FALSE
            /\ Truthy(response.error)

\* C11 witness: a body whose inputs is no array was answered with a failure
C11_Witness ==
    /\ pc = "done"
    /\ body.kind = "notarray"
    /\ response.ok = FALSE
    /\ response.status = 500

Is404(res) == res.kind = "http" /\ res.status = 404

\* C12: a name without commit emails whose profile is answered 404 (at every
\* fetch of it) resolves to a user record with one user: the name as login,
\* no display name, no email.
C12_UnknownNameIsEmptyUser ==
    (Resolved /\ obs.commit.kind # "none"
        /\ (HasHits(obs.commit) => EmailsOf(obs.commit.items) = <<>>)
        /\ Is404(obs.isorg)
        /\ (obs.profile.kind = "none" \/ Is404(obs.profile))) =>
        /\ LastRecord.input = NamesOf(body)[cur]
        /\ LastRecord.type = "user"
        /\ Len(LastRecord.users) = 1
        /\ LastRecord.users[1].login = NamesOf(body)[cur]
        /\ LastRecord.users[1].name = NULL
        /\ LastRecord.users[1].emails = <<>>

\* C12 witness: the commit search was answered 422 and both profile fetches
\* 404, and the request was answered 200 with that record
C12_Witness ==
    /\ pc = "done"
    /\ obs.commit.kind = "http" /\ obs.commit.status = 422
    /\ Is404(obs.isorg) /\ Is404(obs.profile)
    /\ response.status = 200
    /\ response.results[Len(response.results)].users[1].emails = <<>>

\* C13: a record of type "user" has exactly one user, whose login is the
\* input name and whose profileUrl is https://github.com/ followed by it.
C13_UserRecordShape ==
    \A i \in 1..Len(results) :
        results[i].type = "user" =>
            /\ results[i].input = NamesOf(body)[i]
            /\ Len(results[i].users) = 1
            /\ results[i].users[1].login = results[i].input
            /\ results[i].users[1].profileUrl
                 = <<"https://github.com/">> \o results[i].input

\* C13 witness: two user records, one with emails and one without
C13_Witness ==
    /\ Len(results) >= 2
    /\ results[1].type = "user" /\ results[2].type = "user"
    /\ results[1].users[1].emails = <<>>
    /\ results[2].users[1].emails # <<>>
    /\ results[2].users[1].profileUrl = <<"https://github.com/", "b">>

\* C14: the names are resolved one at a time, in input order: every fetch in
\* flight belongs to the current name, whose record is not pushed yet while
\* the records of all names before it are; fetches have been issued for the
\* names up to the current one only.
C14_OneNameAtATime ==
    /\ \A r \in inflight : r.idx = cur /\ Len(results) = cur - 1
    /\ issuedFor = 1..cur
    /\ Len(results) \in {cur - 1, cur}
    /\ \A i \in 1..Len(results) : results[i].input = NamesOf(body)[i]

\* C14 witness: the commit search of the second name is in flight after the
\* first name was resolved as an organization with an enriched member
C14_Witness ==
    /\ cur = 2
    /\ inflight = {Req(2, 0, "commits", 0)}
    /\ Len(results) = 1
    /\ results[1].type = "org"
    /\ Len(results[1].users) = 1

MemberRequests == {r \in inflight : r.m > 0}

GroupOf(k) == (k - 1) \div batchSize

\* C15: the member fetches in flight belong to members of one group of at
\* most batchSize consecutive members, and none is in flight for a member of
\* a group before the rows of all earlier groups are complete.
C15_OneGroupAtATime ==
    /\ \A r1, r2 \in MemberRequests : GroupOf(r1.m) = GroupOf(r2.m)
    /\ Cardinality({r.m : r \in MemberRequests}) <= batchSize
    /\ \A r \in MemberRequests :
         /\ r.m <= Len(members)
         /\ Len(users) = batchSize * GroupOf(r.m)
         /\ Len(mobs) = batchSize * GroupOf(r.m)

\* C15 witness: a member of the second group is in flight after the five
\* members of the first group completed
C15_Witness ==
    /\ pc = "enrich"
    /\ Len(members) > batchSize
    /\ Req(cur, batchSize + 1, "user", 0) \in inflight
    /\ Len(users) = batchSize

\* C16 as claimed: the commit search of a member is issued without waiting
\* for its profile lookup, so while the profile fetch of a member is in
\* flight its commit search has been issued (it is in flight or answered).
C16_BothFetchesIssuedTogether ==
    \A k \in DOMAIN mstate :
        Req(cur, k, "user", 0) \in inflight =>
            \/ Req(cur, k, "commits", 0) \in inflight
            \/ mstate[k].com # NoResp

\* C16 as amended: the two fetches of a member are never in flight together;
\* its commit search is in flight only after its profile fetch was answered.
\* The fetches of different members of a group are in flight together.
C16_CommitAfterProfile ==
    \A k \in DOMAIN mstate :
        /\ ~(Req(cur, k, "user", 0) \in inflight
                /\ Req(cur, k, "commits", 0) \in inflight)
        /\ Req(cur, k, "commits", 0) \in inflight =>
              /\ mstate[k].prof # NoResp
              /\ mstate[k].st = "commit"
        /\ Req(cur, k, "user", 0) \in inflight <=> mstate[k].st = "profile"

\* C16 witness: the commit search of one member and the profile fetch of
\* another member of the same group are in flight together
C16_Witness ==
    /\ pc = "enrich"
    /\ \E k, l \in DOMAIN mstate :
         /\ k # l
         /\ Req(cur, k, "commits", 0) \in inflight
         /\ Req(cur, l, "user", 0) \in inflight
         /\ mstate[k].prof # NoResp

LoginsOf(us) == [k \in 1..Len(us) |-> us[k].login]

\* C17: whatever fetches of the members fail, users holds one row per
\* enumerated member, in the order of the enumeration: while the groups
\* complete it is a prefix of the members, and in the org record returned it
\* is the whole list the enumeration returned.
C17_EveryMemberKept ==
    /\ Len(users) <= Len(members)
    /\ Len(users) = Len(mobs)
    /\ \A k \in 1..Len(users) : users[k].login = members[k]
    /\ \A r \in MemberRequests : Len(users) = batchSize * GroupOf(r.m)
    /\ (Resolved /\ LastRecord.type = "org") =>
          /\ LoginsOf(LastRecord.users) = members
          /\ enumOutcome = "returned" =>
                LoginsOf(LastRecord.users) = LoginsUpTo(Len(fetched))

\* C17 witness: an org record of six members, of which one had its profile
\* answered 404 and its commit search 403 and another had both answered 200
C17_Witness ==
    /\ Resolved
    /\ LastRecord.type = "org"
    /\ Len(LastRecord.users) > batchSize
    /\ \E k, l \in 1..Len(mobs) :
         /\ Is404(mobs[k].prof) /\ Is403(mobs[k].com)
         /\ mobs[l].prof.kind = "http" /\ mobs[l].prof.status = 200
         /\ HasHits(mobs[l].com)
         /\ k < l

\* the public email of a profile answer, as a list
PublicEmailOf(res) ==
    IF res.kind = "http" /\ res.status = 200 /\ res.email \notin {NULL, ""}
    THEN <<res.email>> ELSE <<>>

ItemHasEmail(it) == it.email \notin {NULL, ""}

\* the author emails of the hits of a commit search answer, in their order
SearchEmailsOf(res) ==
    IF HasHits(res)
    THEN LET with == SelectSeq(res.items, ItemHasEmail)
         IN  [n \in 1..Len(with) |-> with[n].email]
    ELSE <<>>

MergedEmailRows(us) ==
    \A k \in 1..Len(us) :
        k <= Len(mobs) /\
        FirstOccurrencesOf(us[k].emails,
            PublicEmailOf(mobs[k].prof) \o SearchEmailsOf(mobs[k].com))

\* C18: the emails of a member are its public profile email, if any, followed
\* by its commit search emails in their order, every value kept at its first
\* occurrence only.
C18_MemberEmailsMerged ==
    /\ MergedEmailRows(users)
    /\ (Resolved /\ LastRecord.type = "org") => MergedEmailRows(LastRecord.users)

\* C18 witness: a member with the profile email e1 and the commit emails
\* e2, e1, e2 has the emails e1, e2
C18_Witness ==
    /\ Resolved
    /\ LastRecord.type = "org"
    /\ \E k \in 1..Len(LastRecord.users) :
         /\ PublicEmailOf(mobs[k].prof) = <<"e1">>
         /\ SearchEmailsOf(mobs[k].com) = <<"e2", "e1", "e2">>
         /\ LastRecord.users[k].emails = <<"e1", "e2">>

\* the steps a member callback of the running chunk still takes
CallbackSteps ==
    2 * Cardinality({k \in DOMAIN mstate : mstate[k].st = "profile"})
    + Cardinality({k \in DOMAIN mstate : mstate[k].st = "commit"})

\* the members after the chunk that starts at index at + 1
MembersAfterChunk(at) == Len(members) - Min(at + batchSize, Len(members))

\* the chunks from the one that starts at index at + 1 on
ChunksFrom(at) == (Len(members) - at + batchSize - 1) \div batchSize

\* the most steps the enrichment of MaxMembers members takes, the sleep
\* after the record included
EnrichSteps == 3 * MaxMembers + 2

\* the most steps one name takes
NameSteps == EnrichSteps + 2 * MaxPages + 3

\* the steps the name in progress still takes at most
NameStepsLeft ==
    CASE pc = "commit"   -> NameSteps
      [] pc = "isorg"    -> NameSteps - 1
      [] pc = "profile"  -> 2
      [] pc = "members"  -> EnrichSteps + 2 * (MaxPages + 1 - page) + 1
      [] pc = "sleep120" -> EnrichSteps + 2 * (MaxPages + 1 - page) + 2
      [] pc = "enrich"   -> 1 + CallbackSteps + 2 * MembersAfterChunk(chunkAt)
                              + ChunksFrom(chunkAt)
      [] pc = "sleep250" -> 1 + 2 * MembersAfterChunk(chunkAt)
                              + ChunksFrom(chunkAt)
      [] pc = "sleep150" -> 1
      [] OTHER           -> 0

\* the steps the request still takes at most
StepsLeft ==
    CASE pc = "start" -> MaxInputs * NameSteps + 1
      [] pc = "done"  -> 0
      [] OTHER        -> (Len(raw) - cur) * NameSteps + NameStepsLeft

\* C19: every request is answered after finitely many steps, with status 200
\* or 500: until it is answered a fetch or a sleep is pending whose end
\* advances it, no step is left once it is answered, and every step lowers
\* the number of steps that can remain, which is never negative.
C19_EveryRequestAnswered ==
    /\ [](pc # "done" => ENABLED <<Next>>_vars)
    /\ [](pc = "done" => response.status \in {200, 500} /\ ~ENABLED Next)
    /\ [](StepsLeft >= 0)
    /\ [][StepsLeft' < StepsLeft]_vars

\* C19 witness: a request was answered after the batch loop ran more than
\* once, the members of its organization filling two groups
C19_Witness ==
    /\ pc = "done"
    /\ response.status = 200
    /\ Len(response.results) = 1
    /\ response.results[1].type = "org"
    /\ Len(response.results[1].users) > batchSize

\* the route answered the last handleRun with a successful ok response
OkAnswer ==
    /\ answer.kind = "http"
    /\ answer.status >= 200 /\ answer.status <= 299
    /\ answer.parses
    /\ answer.ok

\* C20: a handleRun that was invoked ends with loading false, whatever the
\* route does (and when no name was typed); when it has returned exactly one
\* of data and error is set, data (the results of the answer) exactly when
\* the route answered with a successful ok response; while it runs neither is
\* set, so no earlier results stay next to a new error.
C20_RunSettles ==
    /\ [](cpc = "returned" =>
            /\ ~loading
            /\ (data # None) <=> (error = NULL)
            /\ (data # None) <=> OkAnswer
            /\ OkAnswer => data = answer.results)
    /\ [](cpc \in {"fetch", "json"} =>
            loading /\ data = None /\ error = NULL)
    /\ (loading ~> ~loading)

\* C20 witness: results were shown when handleRun was invoked again, and the
\* route answered 500: the error is shown and the results are gone
C20_Witness ==
    /\ cpc = "returned"
    /\ shown.data
    /\ answer.kind = "http"
    /\ answer.status = 500
    /\ error # NULL
    /\ data = None
    /\ ~loading

====
